---------------------------- MODULE Spec2Model ----------------------------
(***************************************************************************)
(* Proof-of-work mini-game of zedr/pycon25-miner: the ledger               *)
(* (TransactionDatabase), the rate limiter (RateLimitDatabase), the game   *)
(* coordinator (Game, Broadcaster.process / process_inv, the cli commands  *)
(* that change state), the proof-of-work engine (miner.py) and a peer      *)
(* (MinerClient of myclient.py over IrcClient.handle_forever).             *)
(*                                                                         *)
(* Text that the code parses is a sequence of one-character strings; text  *)
(* that the code only stores and compares is a TLA+ string.                *)
(***************************************************************************)
EXTENDS Integers, Sequences, FiniteSets, TLC

\* ------------------------------------------------------------------ bounds
MaxTx == 2              \* transactions created in one run
MaxSeconds == 6         \* wall-clock horizon, in seconds
TicksPerSecond == 2     \* clock resolution: ticks in one second
MaxSent == 3            \* lines the coordinator sends in one run
MaxHandled == 2         \* lines the transport delivers in one run
MaxPayload == 3         \* characters of a generated challenge payload
MaxInbox == 2           \* unread lines on a peer's socket
MaxDelivered == 3       \* lines the server delivers to a peer in one run
MaxCalls == 1           \* create_award calls one connection makes

\* ------------------------------------------------------- program constants
seconds_between_requests == 5
MessageIdLen == 8

channel == <<"p","y","c","o","n">>

\* Python's None for optional records and rows
None == [None |-> TRUE]

Min(a, b) == IF a < b THEN a ELSE b
Max(a, b) == IF a > b THEN a ELSE b

\* ----------------------------------------------------------- text helpers
Digits == {"0","1","2","3","4","5","6","7","8","9"}
HexChars == Digits \cup {"a","b","c","d","e","f"}
WordChars == Digits \cup {"a","b","c","d","e","f","u","x","_"}

DigitValue(c) ==
    CASE c = "0" -> 0 [] c = "1" -> 1 [] c = "2" -> 2 [] c = "3" -> 3
      [] c = "4" -> 4 [] c = "5" -> 5 [] c = "6" -> 6 [] c = "7" -> 7
      [] c = "8" -> 8 [] c = "9" -> 9

\* Python's integers have no width, the integers of the model do; the one
\* value used here that SQLite's 64-bit INTEGER cannot hold,
\* 2^63 = 9223372036854775808, is written Wide
Wide == -1
WideDigits == <<"9","2","2","3","3","7","2","0","3","6",
                "8","5","4","7","7","5","8","0","8">>

\* int(s) for a string IsInt accepts
RECURSIVE int(_)
int(s) ==
    IF s = WideDigits THEN Wide
    ELSE IF Len(s) > 0 /\ s[1] = "-" THEN 0 - int(Tail(s))
    ELSE IF Len(s) > 0 /\ s[1] = "+" THEN int(Tail(s))
    ELSE IF Len(s) = 0 THEN 0
    ELSE 10 * int(SubSeq(s, 1, Len(s) - 1)) + DigitValue(s[Len(s)])

\* s.startswith(p)
startswith(s, p) == Len(s) >= Len(p) /\ SubSeq(s, 1, Len(p)) = p

\* s.lstrip(c)
RECURSIVE lstrip(_, _)
lstrip(s, c) ==
    IF Len(s) > 0 /\ s[1] = c THEN lstrip(Tail(s), c) ELSE s

\* s[:n] with Python's slice semantics (n may exceed len(s) or be negative)
PyPrefix(s, n) ==
    SubSeq(s, 1, IF n >= 0 THEN Min(n, Len(s)) ELSE Max(Len(s) + n, 0))

\* c * n with Python's semantics (empty when n <= 0)
PyRepeat(c, n) == [i \in 1..n |-> c]

\* f"{n}" for an integer
DigitChar(n) == CHOOSE c \in Digits : DigitValue(c) = n

RECURSIVE format_int(_)
format_int(n) ==
    IF n < 0 THEN <<"-">> \o format_int(0 - n)
    ELSE IF n < 10 THEN <<DigitChar(n)>>
    ELSE format_int(n \div 10) \o <<DigitChar(n % 10)>>

Whitespace == {" ", "\t", "\n", "\r"}

\* s.strip()
strip(s) ==
    LET kept == {i \in 1..Len(s) : s[i] \notin Whitespace}
    IN  IF kept = {} THEN <<>>
        ELSE SubSeq(s, CHOOSE i \in kept : \A j \in kept : i <= j,
                       CHOOSE i \in kept : \A j \in kept : i >= j)

\* s.split(sep) for a one-character separator
RECURSIVE split(_, _)
split(s, sep) ==
    IF \A i \in 1..Len(s) : s[i] # sep THEN <<s>>
    ELSE LET k == CHOOSE i \in 1..Len(s) :
                      s[i] = sep /\ \A j \in 1..(i - 1) : s[j] # sep
         IN  <<SubSeq(s, 1, k - 1)>> \o split(SubSeq(s, k + 1, Len(s)), sep)

\* sep.join(parts)
RECURSIVE join(_, _)
join(sep, parts) ==
    IF Len(parts) = 0 THEN <<>>
    ELSE IF Len(parts) = 1 THEN parts[1]
    ELSE parts[1] \o <<sep>> \o join(sep, Tail(parts))

AllIn(s, S) == \A i \in 1..Len(s) : s[i] \in S

\* int(s) accepts ASCII digits after an optional sign
Signs == {"-", "+"}
Unsigned(s) == IF Len(s) > 0 /\ s[1] \in Signs THEN Tail(s) ELSE s
IsInt(s) == Unsigned(s) # <<>> /\ AllIn(Unsigned(s), Digits)

\* --------------------------------------------------------- wire patterns
INV == <<":","I","N","V",":">>
PRIVMSG == <<"P","R","I","V","M","S","G">>

\* mine_rxp.match(msg): the named groups, or None
mine_rxp_at(msg, k) ==
    /\ startswith(msg, INV)
    /\ Len(msg) >= Len(INV) + k + 1 + MessageIdLen + 1 + 1
    /\ AllIn(SubSeq(msg, 6, 5 + k), Digits)
    /\ msg[6 + k] = ":"
    /\ AllIn(SubSeq(msg, 7 + k, 6 + k + MessageIdLen), HexChars)
    /\ msg[7 + k + MessageIdLen] = ":"
    /\ AllIn(SubSeq(msg, 8 + k + MessageIdLen, Len(msg)), Digits)

mine_rxp(msg) ==
    IF \E k \in 1..2 : mine_rxp_at(msg, k)
    THEN LET k == CHOOSE j \in 1..2 : mine_rxp_at(msg, j)
         IN  [difficulty |-> SubSeq(msg, 6, 5 + k),
              message_id |-> SubSeq(msg, 7 + k, 6 + k + MessageIdLen),
              nonce      |-> SubSeq(msg, 8 + k + MessageIdLen, Len(msg))]
    ELSE None

\* src_rxp.match(src): the nick group, or None
src_rxp_at(src, n) ==
    /\ Len(src) >= n + 3
    /\ src[1] = ":"
    /\ AllIn(SubSeq(src, 2, n + 1), WordChars)
    /\ src[n + 2] = "!"
    /\ src[n + 3] \in WordChars

src_rxp(src) ==
    IF \E n \in 1..Len(src) : src_rxp_at(src, n)
    THEN LET n == CHOOSE j \in 1..Len(src) : src_rxp_at(src, j)
         IN  [nick |-> SubSeq(src, 2, n + 1)]
    ELSE None

\* ----------------------------------------------------- proof-of-work engine
TableMessages == {"Alice sends 322 to Eve", "Eve sends 31 to Bob"}
TableNonces == 0..4

\* hashlib.sha256(f"{nonce}:{message}").hexdigest() for the nonces and
\* payloads of the model; the key <<nonce, message>> stands for the string
\* f"{nonce}:{message}" (the decimal nonce contains no ':').
DigestTable ==
    \* sha256("0:Alice sends 322 to Eve") = 6febc1dacb3652d393b54a556870bc1ab3239f3bfb95714ad200706ad239eb5f
       (<<0, "Alice sends 322 to Eve">> :> <<
          "6","f","e","b","c","1","d","a","c","b","3","6","5","2","d","3",
          "9","3","b","5","4","a","5","5","6","8","7","0","b","c","1","a",
          "b","3","2","3","9","f","3","b","f","b","9","5","7","1","4","a",
          "d","2","0","0","7","0","6","a","d","2","3","9","e","b","5","f">>)
    \* sha256("1:Alice sends 322 to Eve") = 4bf976c7da312fa9ca32c007e365872cf2960f6075d00ea7253e1dd51a8f80d5
    @@ (<<1, "Alice sends 322 to Eve">> :> <<
          "4","b","f","9","7","6","c","7","d","a","3","1","2","f","a","9",
          "c","a","3","2","c","0","0","7","e","3","6","5","8","7","2","c",
          "f","2","9","6","0","f","6","0","7","5","d","0","0","e","a","7",
          "2","5","3","e","1","d","d","5","1","a","8","f","8","0","d","5">>)
    \* sha256("2:Alice sends 322 to Eve") = 0b42c65b3b555df4d9b28b67277713dcf7d90d91ec1f292db856d1b8caed6db9
    @@ (<<2, "Alice sends 322 to Eve">> :> <<
          "0","b","4","2","c","6","5","b","3","b","5","5","5","d","f","4",
          "d","9","b","2","8","b","6","7","2","7","7","7","1","3","d","c",
          "f","7","d","9","0","d","9","1","e","c","1","f","2","9","2","d",
          "b","8","5","6","d","1","b","8","c","a","e","d","6","d","b","9">>)
    \* sha256("3:Alice sends 322 to Eve") = 00e92d528df8afb5fe977a421db168f7dd1f9ff11d74c41f4fa8ea621a387173
    @@ (<<3, "Alice sends 322 to Eve">> :> <<
          "0","0","e","9","2","d","5","2","8","d","f","8","a","f","b","5",
          "f","e","9","7","7","a","4","2","1","d","b","1","6","8","f","7",
          "d","d","1","f","9","f","f","1","1","d","7","4","c","4","1","f",
          "4","f","a","8","e","a","6","2","1","a","3","8","7","1","7","3">>)
    \* sha256("4:Alice sends 322 to Eve") = 7b6b2ab13330d722ad970d36b5686fce123cb3af492b8ff0504b38256acd9791
    @@ (<<4, "Alice sends 322 to Eve">> :> <<
          "7","b","6","b","2","a","b","1","3","3","3","0","d","7","2","2",
          "a","d","9","7","0","d","3","6","b","5","6","8","6","f","c","e",
          "1","2","3","c","b","3","a","f","4","9","2","b","8","f","f","0",
          "5","0","4","b","3","8","2","5","6","a","c","d","9","7","9","1">>)
    \* sha256("0:Eve sends 31 to Bob") = 00f2520b845a1ce9f972e3f56ec3672ee40e29a64d6b01a239090996a41aa1da
    @@ (<<0, "Eve sends 31 to Bob">> :> <<
          "0","0","f","2","5","2","0","b","8","4","5","a","1","c","e","9",
          "f","9","7","2","e","3","f","5","6","e","c","3","6","7","2","e",
          "e","4","0","e","2","9","a","6","4","d","6","b","0","1","a","2",
          "3","9","0","9","0","9","9","6","a","4","1","a","a","1","d","a">>)
    \* sha256("1:Eve sends 31 to Bob") = 7eebf5aa692ae451c51c8c43417d3017983206786924a16c401d161d9bca12c3
    @@ (<<1, "Eve sends 31 to Bob">> :> <<
          "7","e","e","b","f","5","a","a","6","9","2","a","e","4","5","1",
          "c","5","1","c","8","c","4","3","4","1","7","d","3","0","1","7",
          "9","8","3","2","0","6","7","8","6","9","2","4","a","1","6","c",
          "4","0","1","d","1","6","1","d","9","b","c","a","1","2","c","3">>)
    \* sha256("2:Eve sends 31 to Bob") = 0520d38cbc3404b6cead55fc9d1adc10246c96d9d7880f4b1449f88c51b971da
    @@ (<<2, "Eve sends 31 to Bob">> :> <<
          "0","5","2","0","d","3","8","c","b","c","3","4","0","4","b","6",
          "c","e","a","d","5","5","f","c","9","d","1","a","d","c","1","0",
          "2","4","6","c","9","6","d","9","d","7","8","8","0","f","4","b",
          "1","4","4","9","f","8","8","c","5","1","b","9","7","1","d","a">>)
    \* sha256("3:Eve sends 31 to Bob") = e97452dfc5cca943759c50c3363cb1a0b42c0a59ae0f1e8e6b15e593a922640e
    @@ (<<3, "Eve sends 31 to Bob">> :> <<
          "e","9","7","4","5","2","d","f","c","5","c","c","a","9","4","3",
          "7","5","9","c","5","0","c","3","3","6","3","c","b","1","a","0",
          "b","4","2","c","0","a","5","9","a","e","0","f","1","e","8","e",
          "6","b","1","5","e","5","9","3","a","9","2","2","6","4","0","e">>)
    \* sha256("4:Eve sends 31 to Bob") = be73a18dfcd5305fa6f9411b92047cbaf4b135e0aca93820094f18de60d4ca03
    @@ (<<4, "Eve sends 31 to Bob">> :> <<
          "b","e","7","3","a","1","8","d","f","c","d","5","3","0","5","f",
          "a","6","f","9","4","1","1","b","9","2","0","4","7","c","b","a",
          "f","4","b","1","3","5","e","0","a","c","a","9","3","8","2","0",
          "0","9","4","f","1","8","d","e","6","0","d","4","c","a","0","3">>)
    \* sha256("9223372036854775808:Alice sends 322 to Eve") = 60b229e79d4c0a916217e507a53402369aff32cc698660af1c87823a7e249f35
    @@ (<<Wide, "Alice sends 322 to Eve">> :> <<
          "6","0","b","2","2","9","e","7","9","d","4","c","0","a","9","1",
          "6","2","1","7","e","5","0","7","a","5","3","4","0","2","3","6",
          "9","a","f","f","3","2","c","c","6","9","8","6","6","0","a","f",
          "1","c","8","7","8","2","3","a","7","e","2","4","9","f","3","5">>)

sha256hash(to_hash) == DigestTable[to_hash]

DigestLen == 64         \* characters of a hexdigest

\* compares one character too few
verify_off_by_one(hashed, difficulty) ==
    PyPrefix(hashed, difficulty - 1) = PyRepeat("0", difficulty - 1)

verify(hashed, difficulty) ==
    PyPrefix(hashed, difficulty) = PyRepeat("0", difficulty)

\* the digest when it verifies, else <<>> (Python's None: falsy like "")
validate(nonce, message, difficulty) ==
    LET hashed == sha256hash(<<nonce, message>>)
    IN  IF verify(hashed, difficulty) THEN hashed ELSE <<>>

\* mine(text, difficulty, begin_nonce): the scan over the table's nonces;
\* <<>> when no nonce of the table qualifies (the code's loop has no bound)
RECURSIVE mine(_, _, _)

\* returns a qualifying nonce of the table, the largest one
mine_any(text, difficulty, begin_nonce) ==
    LET ok == { n \in TableNonces :
                  n >= begin_nonce /\ validate(n, text, difficulty) # <<>> }
    IN  IF ok = {} THEN <<>>
        ELSE LET n == CHOOSE n \in ok : \A k \in ok : k <= n
             IN  <<n, validate(n, text, difficulty)>>

mine(text, difficulty, begin_nonce) ==
    IF begin_nonce \notin TableNonces THEN <<>>
    ELSE LET hashed == validate(begin_nonce, text, difficulty)
         IN  IF hashed # <<>> THEN <<begin_nonce, hashed>>
             ELSE mine(text, difficulty, begin_nonce + 1)

\* ------------------------------------------------------------------ ledger
\* rows of table transactions: [id, message_id, difficulty, message]
\* rows of table awards:       [id, user_nick, transaction_id, nonce]
\* (created_at is stored by the code and read by no operation; left out)

Col_message_id == <<"m","e","s","s","a","g","e","_","i","d">>
OtherColumns == { <<"i","d">>, <<"d","i","f","f","i","c","u","l","t","y">>,
                  <<"m","e","s","s","a","g","e">>,
                  <<"c","r","e","a","t","e","d","_","a","t">> }

\* WHERE message_id = "<message_id>": a double-quoted token that names a
\* column is that column, otherwise it is a string literal
WhereMessageId(row, message_id) ==
    CASE message_id = Col_message_id -> TRUE
      [] message_id \in OtherColumns -> FALSE
      [] OTHER -> row.message_id = message_id

get_transactions(transactions, message_id) ==
    IF message_id = <<>>
    THEN transactions
    ELSE SelectSeq(transactions, LAMBDA row : WhereMessageId(row, message_id))

get_transaction(transactions, message_id) ==
    LET found == get_transactions(transactions, message_id)
    IN  IF Len(found) > 0 THEN Head(found) ELSE None

\* the table without the UNIQUE constraint: every INSERT is stored
add_transaction_unconstrained(transactions, tr) ==
    [raised |-> FALSE,
     transactions |-> Append(transactions,
         [id |-> Len(transactions) + 1, message_id |-> tr.message_id,
          difficulty |-> tr.difficulty, message |-> tr.message])]

\* INSERT INTO transactions under the UNIQUE constraint on message_id;
\* raised: sqlite3.IntegrityError escapes and nothing is stored
add_transaction(transactions, tr) ==
    IF \E i \in 1..Len(transactions) :
           transactions[i].message_id = tr.message_id
    THEN [raised |-> TRUE, transactions |-> transactions]
    ELSE [raised |-> FALSE,
          transactions |-> Append(transactions,
              [id |-> Len(transactions) + 1, message_id |-> tr.message_id,
               difficulty |-> tr.difficulty, message |-> tr.message])]

\* forgets the setting and takes the default of the parameter
create_random_default(difficulty, message_id, message) ==
    [id |-> None, message_id |-> message_id, difficulty |-> 0,
     message |-> message]

\* Transaction.create_random(difficulty); message_id and message are the
\* values drawn by uuid4 and generate_random_message
create_random(difficulty, message_id, message) ==
    [id |-> None, message_id |-> message_id, difficulty |-> difficulty,
     message |-> message]

\* Game.create_transaction: the new row carries self.difficulty of this
\* moment; tr is returned to the caller unless the INSERT raised
create_transaction(transactions, difficulty, message_id, message) ==
    LET tr == create_random(difficulty, message_id, message)
        r == add_transaction(transactions, tr)
    IN  [raised |-> r.raised, transactions |-> r.transactions, tr |-> tr]

\* looks the award up by its own id instead of by transaction_id
check_award_exists_by_award_id(awards, transaction) ==
    \E i \in 1..Len(awards) : awards[i].id = transaction.id

check_award_exists(awards, transaction) ==
    \E i \in 1..Len(awards) : awards[i].transaction_id = transaction.id

\* sqlite3 binds a Python int as a 64-bit signed INTEGER; one that does not
\* fit raises OverflowError before the statement runs
binds_integer(n) == n # Wide

\* hands the award of a transaction over to the latest valid submitter
create_award_replacing(transactions, awards, user_nick, message_id, nonce) ==
    LET tr == get_transaction(transactions, message_id)
    IN  IF tr = None
        THEN [raised |-> FALSE, ret |-> FALSE, awards |-> awards,
              logged |-> "No transaction in database", stmts |-> 1]
        ELSE IF ~binds_integer(nonce)
        THEN [raised |-> TRUE, ret |-> FALSE, awards |-> awards,
              logged |-> "", stmts |-> 2]
        ELSE IF check_award_exists(awards, tr)
        THEN [raised |-> FALSE, ret |-> FALSE,
              awards |-> [j \in 1..Len(awards) |->
                            IF awards[j].transaction_id = tr.id
                            THEN [awards[j] EXCEPT !.user_nick = user_nick,
                                                   !.nonce = nonce]
                            ELSE awards[j]],
              logged |-> "was too late", stmts |-> 3]
        ELSE [raised |-> FALSE, ret |-> TRUE,
              awards |-> Append(awards,
                  [id |-> Len(awards) + 1, user_nick |-> user_nick,
                   transaction_id |-> tr.id, nonce |-> nonce]),
              logged |-> "", stmts |-> 3]

\* ret, the awards table afterwards, what was logged, SQL statements run;
\* raised: OverflowError escapes from the INSERT and nothing is stored
create_award(transactions, awards, user_nick, message_id, nonce) ==
    LET tr == get_transaction(transactions, message_id)
    IN  IF tr = None
        THEN [raised |-> FALSE, ret |-> FALSE, awards |-> awards,
              logged |-> "No transaction in database", stmts |-> 1]
        ELSE IF check_award_exists(awards, tr)
        THEN [raised |-> FALSE, ret |-> FALSE, awards |-> awards,
              logged |-> "was too late", stmts |-> 2]
        ELSE IF ~binds_integer(nonce)
        THEN [raised |-> TRUE, ret |-> FALSE, awards |-> awards,
              logged |-> "", stmts |-> 2]
        ELSE [raised |-> FALSE, ret |-> TRUE,
              awards |-> Append(awards,
                  [id |-> Len(awards) + 1, user_nick |-> user_nick,
                   transaction_id |-> tr.id, nonce |-> nonce]),
              logged |-> "", stmts |-> 3]

\* SELECT user_nick, COUNT(user_nick) FROM awards GROUP BY user_nick: the
\* rows yielded, as a set of <<user_nick, count>> (their order is not used)
get_scores(awards) ==
    { <<awards[i].user_nick,
        Cardinality({ j \in 1..Len(awards) :
                        awards[j].user_nick = awards[i].user_nick })>> :
      i \in 1..Len(awards) }

\* ------------------------------------------------------------ rate limiter
\* rows of table attempts: [id, user_nick, updated_at]; updated_at is the
\* text "%Y-%m-%d %H:%M:%S", a whole number of seconds; the clock counts
\* ticks of 1/TicksPerSecond second
strftime(now) == now \div TicksPerSecond
strptime(val) == val * TicksPerSecond
CURRENT_TIMESTAMP(now) == now \div TicksPerSecond

\* rejects at exactly the cooldown as well
too_soon_le(delta) == delta <= seconds_between_requests * TicksPerSecond

\* if delta < self.seconds_between_requests (delta in ticks)
too_soon(delta) == delta < seconds_between_requests * TicksPerSecond

\* UPDATE attempts SET updated_at = now WHERE id = uid, committed
update_attempt(attempts, uid, now) ==
    [i \in 1..Len(attempts) |->
        IF attempts[i].id = uid
        THEN [attempts[i] EXCEPT !.updated_at = strftime(now)]
        ELSE attempts[i]]

\* the first attempt is never stored
insert_attempt_lost(attempts, user_nick, now) == attempts

\* INSERT INTO attempts (user_nick): updated_at defaults to the current time
insert_attempt(attempts, user_nick, now) ==
    Append(attempts, [id |-> Len(attempts) + 1, user_nick |-> user_nick,
                      updated_at |-> CURRENT_TIMESTAMP(now)])

\* refreshes the timestamp of a rejected attempt as well
check_refreshing(attempts, user_nick, now) ==
    LET rows == SelectSeq(attempts, LAMBDA r : r.user_nick = user_nick)
        row == IF Len(rows) > 0 THEN Head(rows) ELSE None
    IN  IF row # None
        THEN [ret |-> ~too_soon(now - strptime(row.updated_at)),
              attempts |-> update_attempt(attempts, row.id, now)]
        ELSE [ret |-> TRUE,
              attempts |-> insert_attempt(attempts, user_nick, now)]

check(attempts, user_nick, now) ==
    LET rows == SelectSeq(attempts, LAMBDA r : r.user_nick = user_nick)
        row == IF Len(rows) > 0 THEN Head(rows) ELSE None
    IN  IF row # None
        THEN LET last_attempt == strptime(row.updated_at)
                 delta == now - last_attempt
             IN  IF too_soon(delta)
                 THEN [ret |-> FALSE, attempts |-> attempts]
                 ELSE [ret |-> TRUE,
                       attempts |-> update_attempt(attempts, row.id, now)]
        ELSE [ret |-> TRUE,
              attempts |-> insert_attempt(attempts, user_nick, now)]

\* -------------------------------------------------------------- coordinator
\* a line handed to IrcClient.send: PRIVMSG <target> :<text>
send_message(channel_name, text) == [target |-> <<"#">> \o channel_name, text |-> text]
send_user_message(user_nick, text) == [target |-> user_nick, text |-> text]

MinedText(user_nick, message_id) ==
    [fmt |-> "{user_nick} successfully mined {message_id}",
     args |-> <<user_nick, message_id>>]
SpeedLimitText == [fmt |-> "Observe speed limit!", args |-> <<>>]

\* Broadcaster.process_inv: raised (an exception escapes), the awards table
\* afterwards, the lines sent, what was logged, ledger statements run, and
\* the values of the branch conditions it evaluated
NoEffect(awards) ==
    [raised |-> FALSE, awards |-> awards, out |-> <<>>, logged |-> "",
     stmts |-> 0, matched |-> FALSE, known |-> FALSE, valid |-> FALSE,
     awarded |-> FALSE]

\* validates against no difficulty at all: every nonce passes
validation_difficulty_unset(match, tr) == 0

\* trusts the difficulty field of the submission
validation_difficulty_claimed(match, tr) == int(match.difficulty)

\* the difficulty the nonce is validated against: tr.difficulty
validation_difficulty(match, tr) == tr.difficulty

\* announces whatever create_award returned
award_outcome_always_announced(aw, user_nick, message_id) ==
    [raised |-> FALSE, awards |-> aw.awards,
     out |-> <<send_message(channel, MinedText(user_nick, message_id))>>,
     logged |-> "successfully mined", stmts |-> 1 + aw.stmts,
     matched |-> TRUE, known |-> TRUE, valid |-> TRUE, awarded |-> aw.ret]

\* if self.game.create_award(...): log and announce on the channel
award_outcome(aw, user_nick, message_id) ==
    IF aw.ret
    THEN [raised |-> FALSE, awards |-> aw.awards,
          out |-> <<send_message(channel, MinedText(user_nick, message_id))>>,
          logged |-> "successfully mined", stmts |-> 1 + aw.stmts,
          matched |-> TRUE, known |-> TRUE, valid |-> TRUE, awarded |-> TRUE]
    ELSE [raised |-> FALSE, awards |-> aw.awards, out |-> <<>>,
          logged |-> aw.logged, stmts |-> 1 + aw.stmts,
          matched |-> TRUE, known |-> TRUE, valid |-> TRUE, awarded |-> FALSE]

process_inv(transactions, awards, user_nick, msg) ==
    LET match == mine_rxp(msg)
    IN  IF match = None THEN NoEffect(awards)
        ELSE
        LET message_id == match.message_id
            nonce == int(match.nonce)
            tr == get_transaction(transactions, message_id)
        IN  IF tr = None
            THEN \* tr.message on None: AttributeError
                 [NoEffect(awards) EXCEPT !.raised = TRUE, !.matched = TRUE,
                                          !.stmts = 1]
            ELSE IF validate(nonce, tr.message,
                             validation_difficulty(match, tr)) # <<>>
            THEN LET aw == create_award(transactions, awards, user_nick,
                                        message_id, nonce)
                 IN  IF aw.raised
                     THEN [NoEffect(awards) EXCEPT !.raised = TRUE,
                               !.matched = TRUE, !.known = TRUE,
                               !.valid = TRUE, !.stmts = 1 + aw.stmts]
                     ELSE award_outcome(aw, user_nick, message_id)
            ELSE [NoEffect(awards) EXCEPT !.matched = TRUE, !.known = TRUE,
                      !.stmts = 1, !.logged = "failed nonce validation"]

\* Broadcaster.process: the rate-limit table and the process_inv result; user
\* is the nick checked by the rate limiter (<<>> when check was not reached)
Ignored(attempts, awards) ==
    [raised |-> FALSE, attempts |-> attempts, awards |-> awards, out |-> <<>>,
     logged |-> "", stmts |-> 0, user |-> <<>>, checked |-> FALSE,
     allowed |-> FALSE, matched |-> FALSE, known |-> FALSE, valid |-> FALSE,
     awarded |-> FALSE]

\* tells the whole channel instead of the submitter
rate_limited_in_public(attempts, awards, user_nick) ==
    [Ignored(attempts, awards) EXCEPT
        !.out = <<send_message(channel, SpeedLimitText)>>,
        !.user = user_nick, !.checked = TRUE]

\* the rate limiter said no: a private notice and nothing else
rate_limited(attempts, awards, user_nick) ==
    [Ignored(attempts, awards) EXCEPT
        !.out = <<send_user_message(user_nick, SpeedLimitText)>>,
        !.user = user_nick, !.checked = TRUE]

process(transactions, awards, attempts, now, src, cmd, msgs) ==
    IF cmd # PRIVMSG THEN Ignored(attempts, awards)
    ELSE IF Len(msgs) # 2
    THEN \* first, msg = msgs: ValueError
         [Ignored(attempts, awards) EXCEPT !.raised = TRUE]
    ELSE
    LET first == msgs[1]
        msg == msgs[2]
        channel_name == lstrip(first, "#")
        src_match == src_rxp(src)
    IN  IF ~(channel = channel_name /\ startswith(msg, INV))
        THEN Ignored(attempts, awards)
        ELSE IF src_match = None THEN Ignored(attempts, awards)
        ELSE
        LET user_nick == src_match.nick
            rl == check(attempts, user_nick, now)
        IN  IF rl.ret
            THEN LET r == process_inv(transactions, awards, user_nick, msg)
                 IN  [raised |-> r.raised, attempts |-> rl.attempts,
                      awards |-> r.awards, out |-> r.out, logged |-> r.logged,
                      stmts |-> r.stmts, user |-> user_nick, checked |-> TRUE,
                      allowed |-> TRUE, matched |-> r.matched,
                      known |-> r.known, valid |-> r.valid,
                      awarded |-> r.awarded]
            ELSE rate_limited(attempts, awards, user_nick)

\* ------------------------------------------------------- lines on the wire
\* Here a line is the sequence of its characters, and so is the payload of
\* the Transaction it carries.
TX == <<"T","X">>
CRLF == <<"\r","\n">>

\* Transaction.__str__
Transaction_str(tr) ==
    TX \o <<":">> \o tr.message_id \o <<":">> \o format_int(tr.difficulty)
       \o <<":">> \o tr.message

\* IrcClient.send_message and IrcClient.send: what is written to the socket
send_message_line(channel_name, message) ==
    PRIVMSG \o <<" ","#">> \o channel_name \o <<" ",":">> \o message
send(message) == message \o CRLF

\* the server hands the line to the members of the channel with the
\* sender's prefix in front
relayed(source, line) == source \o <<" ">> \o line

\* IrcClient.handle_forever: line.decode().strip(), then
\* source, cmd, *words = message.split(" ")
handle_forever_words(line) ==
    LET message == strip(line)
        parts == split(message, " ")
    IN  IF Len(parts) < 2
        THEN [raised |-> TRUE, source |-> <<>>, cmd |-> <<>>, words |-> <<>>]
        ELSE [raised |-> FALSE, source |-> parts[1], cmd |-> parts[2],
              words |-> SubSeq(parts, 3, Len(parts))]

NotDecoded(status) ==
    [raised |-> FALSE, status |-> status, message_id |-> <<>>,
     difficulty_field |-> <<>>, difficulty |-> -1, message |-> <<>>,
     text |-> <<>>]

\* MinerClient.mine up to the call of the search: the fields taken from the
\* line (message_id, difficulty, message) and the arguments of mine()
\* (text = message.strip(), int(difficulty)); raised: int() does not parse
MinerClient_mine(current_channel, src, cmd, msgs) ==
    IF Len(msgs) = 0 THEN NotDecoded("no channel")
    ELSE
    LET rest == Tail(msgs)
    IN  IF lstrip(msgs[1], "#") # current_channel
        THEN NotDecoded("other channel")
        ELSE
        LET msg == join(" ", rest)
            parts == split(msg, ":")
        IN  IF Len(parts) # 5 THEN NotDecoded("Ignored")
            ELSE IF parts[2] # TX THEN NotDecoded("other command")
            ELSE IF ~IsInt(parts[4])
            THEN [NotDecoded("TX") EXCEPT !.raised = TRUE]
            ELSE [raised |-> FALSE, status |-> "TX",
                  message_id |-> parts[3], difficulty_field |-> parts[4],
                  difficulty |-> int(parts[4]), message |-> parts[5],
                  text |-> strip(parts[5])]

\* ------------------------------------------------------------------ inputs
MID_A == <<"0","0","0","0","0","0","0","a">>
MID_B == <<"0","0","0","0","0","0","0","b">>
MessageIds == {MID_A, MID_B}                 \* uuid.uuid4().hex[:8]
Messages == {"Alice sends 322 to Eve"}       \* generate_random_message()
Difficulties == {0, 1}                    \* values of Game.difficulty
\* arguments of the sd command: int(args[0]) takes any integer, signed too
SdArguments == Difficulties \cup {-1}
Nicks == { <<"a">>, <<"b">> }
Nonces == {0, 2}

DifficultyFields == { <<"0">>, <<"1","0">> }
NonceFields == { <<"0">>, <<"0","2">> }

PING == <<"P","I","N","G">>
HashChannel == <<"#">> \o channel

\* puts the fields in the order of the TX line: message_id first
InvWord_as_TX(d, mid, n) == INV \o mid \o <<":">> \o d \o <<":">> \o n

\* the text a peer sends: f"INV:{difficulty}:{message_id}:{nonce}", relayed
\* as the trailing word ":INV:..."
InvWord(d, mid, n) == INV \o d \o <<":">> \o mid \o <<":">> \o n
InvWords ==
    { InvWord(d, mid, n) : d \in DifficultyFields, mid \in MessageIds,
                           n \in NonceFields }
      \cup { InvWord(<<"1">>, MID_A, <<"x">>),
             InvWord(<<"0">>, MID_A, WideDigits) }

\* the source prefix of a relayed line: ":nick!user@host"
Source(nick) == <<":">> \o nick \o <<"!">> \o nick \o <<"@","h">>
ServerSource == <<":","s",".","h">>

\* message.split(" ") of the lines the transport delivers
Lines ==
    { <<Source(u), PRIVMSG, HashChannel, w>> : u \in Nicks, w \in InvWords }
      \cup { <<Source(<<"a">>), PRIVMSG, HashChannel, <<":","h","i">>, <<"a","l","l">> >>,
             <<Source(<<"a">>), PRIVMSG, <<"#","x">>, InvWord(<<"0">>, MID_A, <<"0">>)>>,
             <<ServerSource, PRIVMSG, HashChannel, InvWord(<<"0">>, MID_A, <<"0">>)>>,
             <<PING, <<":","s">> >>,
             << <<>> >> }

\* payloads of challenges: every text of up to MaxPayload characters over a
\* letter, the field separator and the blank, and one generated message
PayloadChars == {"a", ":", " "}
AliceSends == <<"A","l","i","c","e"," ","s","e","n","d","s"," ","3","2","2",
                " ","t","o"," ","E","v","e">>
Payloads ==
    UNION { [1..k -> PayloadChars] : k \in 0..MaxPayload } \cup {AliceSends}
CodecDifficulties == {0, 1, 10}
CodecTransactions ==
    { create_random(d, message_id, message) :
        d \in CodecDifficulties, message_id \in MessageIds,
        message \in Payloads }
BroadcasterSource ==
    <<":","b","r","o","a","d","c","a","s","t","e","r","!",
      "b","r","o","a","d","c","a","s","t","e","r","@","h">>

\* the text of a payload as the key of the digest table
Chars == ("Alice sends 322 to Eve" :> AliceSends)
TextOf(chars) == CHOOSE m \in DOMAIN Chars : Chars[m] = chars

\* what the server delivers to a peer: challenges of the coordinator at
\* difficulties the search meets within the digest table and at one no
\* digest can meet, a chat line, a PING and a line of one word
PeerDifficulties == {1, 2, DigestLen + 1}
PeerLines ==
    { relayed(BroadcasterSource,
              send(send_message_line(channel,
                  Transaction_str(create_random(d, MID_A, AliceSends))))) :
        d \in PeerDifficulties }
      \cup { relayed(Source(<<"a">>),
                     send(send_message_line(channel, <<"h","i">>))),
             send(PING \o <<" ",":","s">>),
             send(<<"x">>) }

\* arguments of the proof-of-work functions called directly
MinerDifficulties == {0, 1, 2, 3, DigestLen, DigestLen + 1}
MinerArgs ==
    { [op |-> "args", nonce |-> n, message |-> m, difficulty |-> d] :
        n \in TableNonces, m \in TableMessages, d \in MinerDifficulties }

\* direct callers of the ledger pass any string as message_id
MessageIdArgs == MessageIds \cup { <<>>, Col_message_id }

Conns == {1, 2}

\* ------------------------------------------------------------------- state
VARIABLES
    transactions,   \* table transactions of the ledger (committed rows)
    awards,         \* table awards of the ledger (committed rows)
    attempts,       \* table attempts of the rate limiter
    difficulty,     \* Game.difficulty
    now,            \* wall clock, in ticks
    sent,           \* lines the coordinator handed to IrcClient.send
    running,        \* main's gather is alive (no exception has escaped)
    pc,             \* handle_forever: "readline" or "drain" (awaiting send)
    handled,        \* lines and calls handled so far
    last,           \* the last operation and what it returned
    allowedAt,      \* per nick: tick of the last check that returned True
    rejectedSince,  \* per nick: a check returned False since then
    conn,           \* per ledger connection: the create_award call in progress
    writer,         \* the connection holding the database write lock, or 0
    wins,           \* per transaction id: create_award calls that returned True
    inbox,          \* a peer: lines the server wrote to its socket, not yet read
    search,         \* a peer: the proof-of-work search MinerClient.mine is in
    peer_running,   \* a peer: its handle_forever loop is alive
    peer_pc,        \* a peer: "readline", "mining" or "drain"
    outbox,         \* a peer: lines it sent, not yet handled by the coordinator
    peer_handled    \* a peer: lines it has read so far

vars == <<transactions, awards, attempts, difficulty, now, sent, running, pc,
          handled, last, allowedAt, rejectedSince, conn, writer, wins,
          inbox, search, peer_running, peer_pc, outbox, peer_handled>>

MaxClock == MaxSeconds * TicksPerSecond

\* no search is running
NoSearch == [text |-> <<>>, difficulty |-> -1, nonce |-> 0,
             message_id |-> <<>>, difficulty_field |-> <<>>]

IdleConn == [pc |-> "idle", user_nick |-> <<>>, message_id |-> <<>>,
             nonce |-> 0, tr |-> None, calls |-> 0, ret |-> "none"]

Init ==
    /\ transactions = <<>>
    /\ awards = <<>>
    /\ attempts = <<>>
    /\ difficulty \in {0, 1}            \* Broadcaster(difficulty=0), main -D 1
    /\ now = 0
    /\ sent = <<>>
    /\ running = TRUE
    /\ pc = "readline"
    /\ handled = 0
    /\ last = [op |-> "init"]
    /\ allowedAt = [u \in Nicks |-> -1]
    /\ rejectedSince = [u \in Nicks |-> FALSE]
    /\ conn = [c \in Conns |-> IdleConn]
    /\ writer = 0
    /\ wins = [i \in 1..MaxTx |-> 0]
    /\ inbox = <<>>
    /\ search = NoSearch
    /\ peer_running = TRUE
    /\ peer_pc = "readline"
    /\ outbox = <<>>
    /\ peer_handled = 0

\* ----------------------------------------------------------------- actions
\* time passes
Tick ==
    /\ now < MaxClock
    /\ now' = now + 1
    /\ UNCHANGED <<peer_handled, peer_running, peer_pc, outbox, inbox, search, transactions, awards, attempts, difficulty, sent, running,
                   pc, handled, last, allowedAt, rejectedSince, conn, writer, wins>>

\* cli "ct": Game.create_transaction, then the TX line is sent
CreateTransaction ==
    /\ running
    /\ Len(transactions) < MaxTx
    /\ Len(sent) < MaxSent
    /\ \E message_id \in MessageIds, message \in Messages :
         \E r \in { create_transaction(transactions, difficulty,
                                       message_id, message) } :
             /\ transactions' = r.transactions
             /\ running' = ~r.raised
             /\ sent' = IF r.raised THEN sent
                        ELSE Append(sent, send_message(channel,
                                 [fmt |-> "TX:{message_id}:{difficulty}:{message}",
                                  args |-> <<r.tr.message_id, r.tr.difficulty,
                                             r.tr.message>>]))
             /\ last' = [op |-> "create_transaction", raised |-> r.raised,
                         tr |-> r.tr]
    /\ UNCHANGED <<peer_handled, peer_running, peer_pc, outbox, inbox, search, awards, attempts, difficulty, now, pc, handled, allowedAt,
                   rejectedSince, conn, writer, wins>>

\* cli "sd": set the difficulty and announce it
SetDifficulty ==
    /\ running
    /\ Len(sent) < MaxSent
    /\ \E new_difficulty \in SdArguments :
         /\ new_difficulty # difficulty
         /\ difficulty' = new_difficulty
         /\ sent' = Append(sent, send_message(channel,
                        [fmt |-> "The difficulty is now {difficulty}",
                         args |-> <<new_difficulty>>]))
    /\ last' = [op |-> "set_difficulty"]
    /\ UNCHANGED <<peer_handled, peer_running, peer_pc, outbox, inbox, search, transactions, awards, attempts, now, running, pc, handled,
                   allowedAt, rejectedSince, conn, writer, wins>>

\* IrcClient.handle_forever: one received line, split into words and handed
\* to Broadcaster.process; an exception escapes the loop and ends main
Handle(line) ==
    /\ running
    /\ pc = "readline"
    /\ handled < MaxHandled
    /\ Len(sent) < MaxSent
    /\ IF Len(line) < 2
       THEN \* source, cmd, *words = message.split(" "): ValueError
            /\ running' = FALSE
            /\ last' = [op |-> "process", line |-> line,
                        unpacked |-> FALSE, raised |-> TRUE]
            /\ UNCHANGED <<attempts, awards, sent, pc, allowedAt, rejectedSince>>
       ELSE \E r \in { process(transactions, awards, attempts, now,
                                line[1], line[2], SubSeq(line, 3, Len(line))) } :
                /\ attempts' = r.attempts
                /\ awards' = r.awards
                /\ sent' = sent \o r.out
                /\ running' = ~r.raised
                /\ pc' = IF Len(r.out) > 0 THEN "drain" ELSE "readline"
                /\ allowedAt' = IF r.checked /\ r.allowed
                                THEN [allowedAt EXCEPT ![r.user] = now]
                                ELSE allowedAt
                /\ rejectedSince' = IF r.checked
                                    THEN [rejectedSince EXCEPT ![r.user] = ~r.allowed]
                                    ELSE rejectedSince
                /\ last' = [op |-> "process", line |-> line,
                            unpacked |-> TRUE, raised |-> r.raised,
                            user |-> r.user, checked |-> r.checked,
                            allowed |-> r.allowed, matched |-> r.matched,
                            known |-> r.known, valid |-> r.valid, awarded |-> r.awarded,
                            logged |-> r.logged, stmts |-> r.stmts,
                            out |-> r.out,
                            prevAllowedAt |-> IF r.checked
                                              THEN allowedAt[r.user] ELSE -1]
    /\ handled' = handled + 1
    /\ UNCHANGED <<peer_handled, peer_running, peer_pc, inbox, search,
                   transactions, difficulty, now, conn, writer, wins>>

\* a line of any other client of the server
HandleLine ==
    /\ \E line \in Lines : Handle(line)
    /\ UNCHANGED outbox

\* the awaited send completes and handle_forever reads the next line
Drained ==
    /\ running
    /\ pc = "drain"
    /\ pc' = "readline"
    /\ UNCHANGED <<peer_handled, peer_running, peer_pc, outbox, inbox, search, transactions, awards, attempts, difficulty, now, sent,
                   running, handled, last, allowedAt, rejectedSince, conn, writer, wins>>

Next == Tick \/ CreateTransaction \/ SetDifficulty \/ HandleLine \/ Drained

Spec == Init /\ [][Next]_vars

\* ------------------------------------------- the ledger called directly
\* TransactionDatabase.add_transaction(tr) by any caller
AddTransaction ==
    /\ Len(transactions) < MaxTx
    /\ \E message_id \in MessageIds, d \in Difficulties, message \in Messages :
         \E r \in { add_transaction(transactions,
                        [id |-> None, message_id |-> message_id,
                         difficulty |-> d, message |-> message]) } :
             /\ transactions' = r.transactions
             /\ last' = [op |-> "add_transaction", raised |-> r.raised,
                         message_id |-> message_id]
    /\ UNCHANGED <<peer_handled, peer_running, peer_pc, outbox, inbox, search, awards, attempts, difficulty, now, sent, running, pc,
                   handled, allowedAt, rejectedSince, conn, writer, wins>>

\* TransactionDatabase.create_award / Game.create_award by any caller
CreateAward ==
    /\ \E user_nick \in Nicks, message_id \in MessageIdArgs, nonce \in Nonces :
         \E r \in { create_award(transactions, awards, user_nick,
                                 message_id, nonce) } :
             /\ awards' = r.awards
             /\ last' = [op |-> "create_award", raised |-> r.raised,
                         ret |-> r.ret,
                         user_nick |-> user_nick, message_id |-> message_id,
                         nonce |-> nonce, logged |-> r.logged]
    /\ UNCHANGED <<peer_handled, peer_running, peer_pc, outbox, inbox, search, transactions, attempts, difficulty, now, sent, running, pc,
                   handled, allowedAt, rejectedSince, conn, writer, wins>>

NextLedger == AddTransaction \/ CreateAward

SpecLedger == Init /\ [][NextLedger]_vars

\* ------------------------------------------- process_inv called directly
\* Broadcaster.process_inv(user_nick, msg) by any caller; an exception goes
\* to the caller
ProcessInv ==
    /\ \E user_nick \in Nicks, msg \in InvWords :
         \E r \in { process_inv(transactions, awards, user_nick, msg) } :
             /\ awards' = r.awards
             /\ sent' = sent \o r.out
             /\ last' = [op |-> "process_inv", user |-> user_nick, msg |-> msg,
                         raised |-> r.raised, matched |-> r.matched,
                         known |-> r.known, valid |-> r.valid,
                         awarded |-> r.awarded, logged |-> r.logged]
    /\ UNCHANGED <<peer_handled, peer_running, peer_pc, outbox, inbox, search, transactions, attempts, difficulty, now, running, pc,
                   handled, allowedAt, rejectedSince, conn, writer, wins>>

NextInv == AddTransaction \/ ProcessInv

SpecInv == Init /\ [][NextInv]_vars

\* ------------------------------------------ the rate limiter called directly
\* RateLimitDatabase.check(user_nick)
Check ==
    /\ \E user_nick \in Nicks :
         \E r \in { check(attempts, user_nick, now) } :
             /\ attempts' = r.attempts
             /\ allowedAt' = IF r.ret THEN [allowedAt EXCEPT ![user_nick] = now]
                             ELSE allowedAt
             /\ rejectedSince' = [rejectedSince EXCEPT ![user_nick] = ~r.ret]
             /\ last' = [op |-> "check", user |-> user_nick, ret |-> r.ret,
                         prevAllowedAt |-> allowedAt[user_nick],
                         prevRejected |-> rejectedSince[user_nick], at |-> now]
    /\ UNCHANGED <<peer_handled, peer_running, peer_pc, outbox, inbox, search, transactions, awards, difficulty, now, sent, running, pc,
                   handled, conn, writer, wins>>

NextRate == Tick \/ Check

SpecRate == Init /\ [][NextRate]_vars

\* ------------------- create_award over separate connections to one database
\* Each connection runs TransactionDatabase.create_award one storage step at
\* a time.  A SELECT reads the committed rows; the INSERT takes the database
\* write lock, which the commit releases.
Returned(c, ret) ==
    [conn EXCEPT ![c] = [IdleConn EXCEPT !.calls = conn[c].calls, !.ret = ret]]

\* a connection adds a transaction (INSERT and commit); a UNIQUE violation
\* raises inside the open transaction, which keeps the write lock
ConnAddTransaction(c) ==
    /\ conn[c].pc = "idle"
    /\ writer \in {0, c}
    /\ Len(transactions) < MaxTx
    /\ \E message_id \in MessageIds, d \in Difficulties, message \in Messages :
         \E r \in { add_transaction(transactions,
                        [id |-> None, message_id |-> message_id,
                         difficulty |-> d, message |-> message]) } :
             /\ transactions' = r.transactions
             /\ writer' = IF r.raised THEN c ELSE 0
    /\ UNCHANGED <<peer_handled, peer_running, peer_pc, outbox, inbox, search, awards, attempts, difficulty, now, sent, running, pc,
                   handled, last, allowedAt, rejectedSince, conn, wins>>

\* create_award(user_nick, message_id, nonce) is called
ConnCall(c) ==
    /\ conn[c].pc = "idle"
    /\ conn[c].calls < MaxCalls
    /\ \E user_nick \in Nicks, message_id \in MessageIds, nonce \in Nonces :
         conn' = [conn EXCEPT ![c] =
                     [pc |-> "lookup", user_nick |-> user_nick,
                      message_id |-> message_id, nonce |-> nonce,
                      tr |-> None, calls |-> conn[c].calls + 1, ret |-> "none"]]
    /\ UNCHANGED <<peer_handled, peer_running, peer_pc, outbox, inbox, search, transactions, awards, attempts, difficulty, now, sent,
                   running, pc, handled, last, allowedAt, rejectedSince, writer,
                   wins>>

\* tr = self.get_transaction(message_id)
ConnLookup(c) ==
    /\ conn[c].pc = "lookup"
    /\ \E tr \in { get_transaction(transactions, conn[c].message_id) } :
         conn' = IF tr = None THEN Returned(c, "false")
                 ELSE [conn EXCEPT ![c].pc = "check", ![c].tr = tr]
    /\ UNCHANGED <<peer_handled, peer_running, peer_pc, outbox, inbox, search, transactions, awards, attempts, difficulty, now, sent,
                   running, pc, handled, last, allowedAt, rejectedSince, writer,
                   wins>>

\* if self.check_award_exists(tr): return False
ConnCheck(c) ==
    /\ conn[c].pc = "check"
    /\ conn' = IF check_award_exists(awards, conn[c].tr)
               THEN Returned(c, "false")
               ELSE [conn EXCEPT ![c].pc = "insert"]
    /\ UNCHANGED <<peer_handled, peer_running, peer_pc, outbox, inbox, search, transactions, awards, attempts, difficulty, now, sent,
                   running, pc, handled, last, allowedAt, rejectedSince, writer,
                   wins>>

\* INSERT INTO awards: takes the write lock; when another connection holds
\* it past the busy timeout, sqlite3.OperationalError escapes
ConnInsert(c) ==
    /\ conn[c].pc = "insert"
    /\ IF writer \in {0, c}
       THEN /\ writer' = c
            /\ conn' = [conn EXCEPT ![c].pc = "commit"]
       ELSE /\ writer' = writer
            /\ conn' = Returned(c, "raised")
    /\ UNCHANGED <<peer_handled, peer_running, peer_pc, outbox, inbox, search, transactions, awards, attempts, difficulty, now, sent,
                   running, pc, handled, last, allowedAt, rejectedSince, wins>>

\* self._conn.commit(); return True
ConnCommit(c) ==
    /\ conn[c].pc = "commit"
    /\ awards' = Append(awards,
           [id |-> Len(awards) + 1, user_nick |-> conn[c].user_nick,
            transaction_id |-> conn[c].tr.id, nonce |-> conn[c].nonce])
    /\ writer' = 0
    /\ wins' = [wins EXCEPT ![conn[c].tr.id] = @ + 1]
    /\ conn' = Returned(c, "true")
    /\ UNCHANGED <<peer_handled, peer_running, peer_pc, outbox, inbox, search, transactions, attempts, difficulty, now, sent, running, pc,
                   handled, last, allowedAt, rejectedSince>>

NextConc ==
    \E c \in Conns :
        \/ ConnAddTransaction(c)
        \/ ConnCall(c)
        \/ ConnLookup(c)
        \/ ConnCheck(c)
        \/ ConnInsert(c)
        \/ ConnCommit(c)

SpecConc == Init /\ [][NextConc]_vars

\* --------------------------------- a challenge on its way to a peer
\* One Transaction is encoded by the coordinator (cli "ct"), relayed by the
\* server and decoded by MinerClient.mine; last holds the stage reached.
InitCodec ==
    /\ transactions = <<>>
    /\ awards = <<>>
    /\ attempts = <<>>
    /\ difficulty = 0
    /\ now = 0
    /\ sent = <<>>
    /\ running = TRUE
    /\ pc = "readline"
    /\ handled = 0
    /\ last \in { [op |-> "Transaction", tr |-> tr] : tr \in CodecTransactions }
    /\ allowedAt = [u \in Nicks |-> -1]
    /\ rejectedSince = [u \in Nicks |-> FALSE]
    /\ conn = [c \in Conns |-> IdleConn]
    /\ writer = 0
    /\ wins = [i \in 1..MaxTx |-> 0]
    /\ inbox = <<>>
    /\ search = NoSearch
    /\ peer_running = TRUE
    /\ peer_pc = "readline"
    /\ outbox = <<>>
    /\ peer_handled = 0

\* await client.send_message(client.channel, str(tr))
SendTransaction ==
    /\ last.op = "Transaction"
    /\ last' = [op |-> "send", tr |-> last.tr,
                line |-> send(send_message_line(channel,
                                                Transaction_str(last.tr)))]
    /\ UNCHANGED <<peer_handled, peer_running, peer_pc, outbox, inbox, search, transactions, awards, attempts, difficulty, now, sent,
                   running, pc, handled, allowedAt, rejectedSince, conn,
                   writer, wins>>

\* the server passes the line on to the peers in the channel
Relay ==
    /\ last.op = "send"
    /\ last' = [op |-> "relay", tr |-> last.tr,
                line |-> relayed(BroadcasterSource, last.line)]
    /\ UNCHANGED <<peer_handled, peer_running, peer_pc, outbox, inbox, search, transactions, awards, attempts, difficulty, now, sent,
                   running, pc, handled, allowedAt, rejectedSince, conn,
                   writer, wins>>

\* the peer's handle_forever reads the line and hands it to MinerClient.mine
Decode ==
    /\ last.op = "relay"
    /\ \E w \in { handle_forever_words(last.line) } :
         \E r \in { IF w.raised THEN [NotDecoded("no command") EXCEPT !.raised = TRUE]
                    ELSE MinerClient_mine(channel, w.source, w.cmd, w.words) } :
             last' = [op |-> "mine", tr |-> last.tr, line |-> last.line,
                      decoded |-> r]
    /\ UNCHANGED <<peer_handled, peer_running, peer_pc, outbox, inbox, search, transactions, awards, attempts, difficulty, now, sent,
                   running, pc, handled, allowedAt, rejectedSince, conn,
                   writer, wins>>

NextCodec == SendTransaction \/ Relay \/ Decode

SpecCodec == InitCodec /\ [][NextCodec]_vars

\* ------------------------------------------------------------ a peer
\* The process of myclient.py: MinerClient.handle_forever with the handler
\* MinerClient.mine.  peer_pc is the position of its one task: "readline"
\* (awaiting a line), "mining" (inside miner.mine, called by the handler
\* without an await) or "drain" (awaiting the send of the submission).
Deliver ==
    /\ Len(inbox) < MaxInbox
    /\ peer_handled + Len(inbox) < MaxDelivered
    /\ \E line \in PeerLines : inbox' = Append(inbox, line)
    /\ UNCHANGED <<transactions, awards, attempts, difficulty, now, sent,
                   running, pc, handled, last, allowedAt, rejectedSince, conn,
                   writer, wins, search, peer_running, peer_pc, outbox,
                   peer_handled>>

\* handle_forever reads a line and awaits MinerClient.mine, which decodes it
\* and, for a challenge, enters the search at nonce 1
PeerReadline ==
    /\ peer_running
    /\ peer_pc = "readline"
    /\ Len(inbox) > 0
    /\ inbox' = Tail(inbox)
    /\ peer_handled' = peer_handled + 1
    /\ \E w \in { handle_forever_words(Head(inbox)) } :
         \E r \in { IF w.raised
                    THEN [NotDecoded("no command") EXCEPT !.raised = TRUE]
                    ELSE MinerClient_mine(channel, w.source, w.cmd, w.words) } :
             /\ peer_running' = ~r.raised
             /\ peer_pc' = IF ~r.raised /\ r.status = "TX" THEN "mining"
                           ELSE "readline"
             /\ search' = IF ~r.raised /\ r.status = "TX"
                          THEN [text |-> r.text, difficulty |-> r.difficulty,
                                nonce |-> 1, message_id |-> r.message_id,
                                difficulty_field |-> r.difficulty_field]
                          ELSE NoSearch
             /\ last' = [op |-> "mine", line |-> Head(inbox),
                         raised |-> r.raised, status |-> r.status]
    /\ UNCHANGED <<transactions, awards, attempts, difficulty, now, sent,
                   running, pc, handled, allowedAt, rejectedSince, conn,
                   writer, wins, outbox>>

\* one turn of the loop of miner.mine: the nonce validates and the handler
\* goes on to send the submission, or the next nonce is tried; past the
\* digest table the loop goes on and the model follows it no further
MineStep ==
    /\ peer_running
    /\ peer_pc = "mining"
    /\ \E hashed \in { validate(search.nonce, TextOf(search.text),
                                 search.difficulty) } :
         IF hashed # <<>>
         THEN /\ outbox' = Append(outbox, send(send_message_line(channel,
                               Tail(InvWord(search.difficulty_field,
                                            search.message_id,
                                            format_int(search.nonce))))))
              /\ peer_pc' = "drain"
              /\ search' = NoSearch
              /\ last' = [op |-> "mined", nonce |-> search.nonce,
                          hashed |-> hashed]
         ELSE /\ search.nonce + 1 \in TableNonces
              /\ search' = [search EXCEPT !.nonce = search.nonce + 1]
              /\ UNCHANGED <<outbox, peer_pc, last>>
    /\ UNCHANGED <<transactions, awards, attempts, difficulty, now, sent,
                   running, pc, handled, allowedAt, rejectedSince, conn,
                   writer, wins, inbox, peer_running, peer_handled>>

\* the awaited send of the submission completes
PeerDrained ==
    /\ peer_running
    /\ peer_pc = "drain"
    /\ peer_pc' = "readline"
    /\ UNCHANGED <<transactions, awards, attempts, difficulty, now, sent,
                   running, pc, handled, last, allowedAt, rejectedSince, conn,
                   writer, wins, inbox, search, peer_running, outbox,
                   peer_handled>>

NextPeer == Deliver \/ PeerReadline \/ MineStep \/ PeerDrained

SpecPeer == Init /\ [][NextPeer]_vars

\* --------------------------------------------- coordinator and peer together
\* The coordinator's challenge reaches the peer through the server, the peer
\* mines it, and its submission reaches the coordinator among the lines of
\* the other clients.  The clock stands still here: a nick's cooldown
\* never ends, so every later submission of a nick checked before is
\* rate-limited.
PeerNick == <<"a">>        \* NAME given to myclient.py

\* the server passes the TX line of the transaction just created on to the
\* peer (a peer not in the channel at that moment never gets it)
RelayChallenge ==
    /\ last.op = "create_transaction"
    /\ ~last.raised
    /\ Len(inbox) < MaxInbox
    /\ inbox' = Append(inbox,
           relayed(BroadcasterSource,
               send(send_message_line(channel,
                   Transaction_str([last.tr EXCEPT
                                       !.message = Chars[last.tr.message]])))))
    /\ last' = [op |-> "relay"]
    /\ UNCHANGED <<transactions, awards, attempts, difficulty, now, sent,
                   running, pc, handled, allowedAt, rejectedSince, conn,
                   writer, wins, search, peer_running, peer_pc, outbox,
                   peer_handled>>

\* the server passes the peer's line on to the coordinator, whose
\* handle_forever splits it and hands it to Broadcaster.process
HandleSubmission ==
    /\ Len(outbox) > 0
    /\ \E w \in { handle_forever_words(relayed(Source(PeerNick),
                                               Head(outbox))) } :
         Handle(IF w.raised THEN << <<>> >>
                ELSE <<w.source, w.cmd>> \o w.words)
    /\ outbox' = Tail(outbox)

NextEnd ==
    \/ SetDifficulty
    \/ CreateTransaction
    \/ RelayChallenge
    \/ PeerReadline
    \/ MineStep
    \/ PeerDrained
    \/ HandleLine
    \/ HandleSubmission
    \/ Drained

SpecEnd == Init /\ [][NextEnd]_vars

\* ----------------------------------- the proof-of-work functions called directly
\* last holds the arguments, then the call made with them and what it
\* returned
InitMiner ==
    /\ transactions = <<>>
    /\ awards = <<>>
    /\ attempts = <<>>
    /\ difficulty = 0
    /\ now = 0
    /\ sent = <<>>
    /\ running = TRUE
    /\ pc = "readline"
    /\ handled = 0
    /\ last \in MinerArgs
    /\ allowedAt = [u \in Nicks |-> -1]
    /\ rejectedSince = [u \in Nicks |-> FALSE]
    /\ conn = [c \in Conns |-> IdleConn]
    /\ writer = 0
    /\ wins = [i \in 1..MaxTx |-> 0]
    /\ inbox = <<>>
    /\ search = NoSearch
    /\ peer_running = TRUE
    /\ peer_pc = "readline"
    /\ outbox = <<>>
    /\ peer_handled = 0

\* validate(nonce, message, difficulty)
Validate ==
    /\ last.op = "args"
    /\ last' = [last EXCEPT !.op = "validate"]
                 @@ [ret |-> validate(last.nonce, last.message, last.difficulty)]
    /\ UNCHANGED <<peer_handled, peer_running, peer_pc, outbox, inbox, search, transactions, awards, attempts, difficulty, now, sent,
                   running, pc, handled, allowedAt, rejectedSince, conn,
                   writer, wins>>

\* mine(text, difficulty, begin_nonce); returned is false when the scan
\* leaves the digest table and the loop of the code goes on
Mine ==
    /\ last.op = "args"
    /\ \E r \in { mine(last.message, last.difficulty, last.nonce) } :
         last' = [last EXCEPT !.op = "mine"]
                   @@ [returned |-> r # <<>>, ret |-> r]
    /\ UNCHANGED <<peer_handled, peer_running, peer_pc, outbox, inbox, search, transactions, awards, attempts, difficulty, now, sent,
                   running, pc, handled, allowedAt, rejectedSince, conn,
                   writer, wins>>

NextMiner == Validate \/ Mine

SpecMiner == InitMiner /\ [][NextMiner]_vars

\* ------------------------------------------------------------- properties
Sec(t) == t \div TicksPerSecond

IsMined(line) ==
    /\ line.target = HashChannel
    /\ line.text.fmt = "{user_nick} successfully mined {message_id}"

MinedFor(message_id) ==
    { i \in 1..Len(sent) : IsMined(sent[i]) /\ sent[i].text.args[2] = message_id }

\* the submission of the last handled line, decoded again
LastInv == mine_rxp(last.line[4])
LastTr == get_transaction(transactions, LastInv.message_id)
LastIsSubmission ==
    /\ last.op = "process"
    /\ last.unpacked
    /\ last.checked

\* C1: after any sequence of add_transaction and create_award calls, no two
\* rows of the awards table refer to the same transaction.
C1_OneAwardPerTransaction ==
    \A i, j \in 1..Len(awards) :
        awards[i].transaction_id = awards[j].transaction_id => i = j

\* a create_award for an already awarded transaction was turned down while
\* another transaction is still open
C1_Witness ==
    /\ last.op = "create_award"
    /\ ~last.ret
    /\ last.logged = "was too late"
    /\ Len(transactions) = 2
    /\ Len(awards) = 1

\* C2: of the create_award calls that run concurrently over separate
\* connections for one transaction, at most one returns True and the others
\* return False.
C2_AtMostOneTrue == \A t \in DOMAIN wins : wins[t] <= 1

\* C3: two submissions that differ only in the self-reported difficulty
\* field have the same outcome in process_inv from the same ledger state:
\* same award, same announcement, same log entry, same exception.
C3_DifficultyFieldIgnored ==
    \A u \in Nicks, mid \in MessageIds, n \in NonceFields :
        \A d1, d2 \in DifficultyFields :
            process_inv(transactions, awards, u, InvWord(d1, mid, n))
              = process_inv(transactions, awards, u, InvWord(d2, mid, n))

\* a submission claiming a difficulty below the stored one, with a nonce
\* that would pass at the claimed difficulty, was validated and failed
C3_Witness ==
    /\ last.op = "process_inv"
    /\ last.known /\ ~last.valid
    /\ LET m == mine_rxp(last.msg)
           tr == get_transaction(transactions, m.message_id)
       IN  /\ int(m.difficulty) < tr.difficulty
           /\ validate(int(m.nonce), tr.message, int(m.difficulty)) # <<>>

\* C4: handling a line sends the "successfully mined" announcement exactly
\* when the nonce validated and create_award returned True (an award row for
\* that user was added); so every transaction has at most one such
\* announcement, and it names the user of the transaction's award.
C4_AnnouncedOnThisStep ==
    /\ Len(sent') = Len(sent) + 1
    /\ IsMined(sent'[Len(sent')])

C4_Step ==
    (handled' = handled + 1) =>
        LET won == /\ last'.unpacked /\ last'.checked /\ last'.allowed
                   /\ last'.valid /\ last'.awarded
        IN  /\ C4_AnnouncedOnThisStep <=> won
            /\ won <=> (Len(awards') = Len(awards) + 1)
            /\ won =>
                 LET m == mine_rxp(last'.line[4])
                     tr == get_transaction(transactions, m.message_id)
                     line == sent'[Len(sent')]
                     aw == awards'[Len(awards')]
                 IN  /\ validate(int(m.nonce), tr.message, tr.difficulty) # <<>>
                     /\ aw.transaction_id = tr.id
                     /\ aw.user_nick = last'.user
                     /\ line.text.args = <<last'.user, m.message_id>>

C4_OnePerTransaction ==
    /\ \A i \in 1..Len(sent) :
         IsMined(sent[i]) =>
             \E k \in 1..Len(transactions) :
                 transactions[k].message_id = sent[i].text.args[2]
    /\ \A k \in 1..Len(transactions) :
         LET mined == MinedFor(transactions[k].message_id)
         IN  /\ Cardinality(mined) <= 1
             /\ \A i \in mined :
                  \E j \in 1..Len(awards) :
                      /\ awards[j].transaction_id = transactions[k].id
                      /\ awards[j].user_nick = sent[i].text.args[1]

C4_Announcement == [][C4_Step]_vars /\ []C4_OnePerTransaction

\* after the winner was announced, a second valid submission for the same
\* transaction came too late and was not announced
C4_Witness ==
    /\ LastIsSubmission
    /\ last.allowed /\ last.valid /\ ~last.awarded
    /\ Cardinality(MinedFor(LastInv.message_id)) = 1

\* C5: a well-formed submission for a message_id the ledger does not hold
\* is handled without an exception escaping process_inv.
C5_UnknownIdNonFatal ==
    (LastIsSubmission /\ last.allowed /\ last.matched /\ ~last.known)
        => (~last.raised /\ running)

\* C6: Broadcaster.process returns without raising for every delivered
\* message, so the message loop keeps running.
C6_ProcessNeverRaises ==
    (last.op = "process" /\ last.unpacked) => ~last.raised

RowsOf(rows, u) == SelectSeq(rows, LAMBDA r : r.user_nick = u)

C8_Step ==
    (now' = now /\ last'.op = "check") =>
        /\ ~last'.ret => attempts' = attempts
        /\ \A u \in Nicks :
             RowsOf(attempts', u) # RowsOf(attempts, u)
                 => (u = last'.user /\ last'.ret)

C8_RejectedLeavesEntry == [][C8_Step]_vars

\* a check was rejected seconds after the allowed one and the entry still
\* carries the time of the allowed one
C8_Witness ==
    /\ last.op = "check"
    /\ ~last.ret
    /\ \E i \in 1..Len(attempts) :
         /\ attempts[i].user_nick = last.user
         /\ attempts[i].updated_at = Sec(last.prevAllowedAt)
         /\ attempts[i].updated_at < Sec(last.at)

C10_Step ==
    (/\ handled' = handled + 1
     /\ last'.unpacked /\ last'.checked /\ ~last'.allowed)
        => /\ transactions' = transactions
           /\ awards' = awards
           /\ last'.stmts = 0
           /\ sent' = Append(sent, send_user_message(last'.user, SpeedLimitText))

C10_RateLimitedNotEvaluated == [][C10_Step]_vars

\* the rejected submission carried a valid nonce for an un-awarded transaction
C10_Witness ==
    /\ LastIsSubmission
    /\ ~last.allowed
    /\ LastInv # None
    /\ LastTr # None
    /\ validate(int(LastInv.nonce), LastTr.message, LastTr.difficulty) # <<>>
    /\ ~check_award_exists(awards, LastTr)

\* C11: a stored transaction keeps the difficulty that was the coordinator's
\* setting when create_transaction was called: a new row takes the setting
\* of that moment, no later step (set difficulty, create, submission, award)
\* changes a stored row, so get_transaction returns the same difficulty, and
\* a submission is validated against the stored value.
C11_Step ==
    /\ Len(transactions') >= Len(transactions)
    /\ \A k \in 1..Len(transactions) :
         /\ transactions'[k] = transactions[k]
         /\ get_transaction(transactions', transactions[k].message_id).difficulty
              = get_transaction(transactions, transactions[k].message_id).difficulty
    /\ Len(transactions') > Len(transactions) =>
         /\ Len(transactions') = Len(transactions) + 1
         /\ last'.op = "create_transaction"
         /\ transactions'[Len(transactions')].difficulty = difficulty
    /\ (/\ handled' = handled + 1
        /\ last'.unpacked /\ last'.checked /\ last'.allowed /\ last'.known) =>
         LET m == mine_rxp(last'.line[4])
             tr == get_transaction(transactions, m.message_id)
         IN  last'.valid <=>
                 validate(int(m.nonce), tr.message, tr.difficulty) # <<>>

C11_DifficultySnapshot == [][C11_Step]_vars

\* after the setting was lowered, a nonce that passes at the new setting was
\* turned down against the difficulty stored with the transaction
C11_Witness ==
    /\ LastIsSubmission
    /\ last.allowed /\ last.known /\ ~last.valid
    /\ LastTr.difficulty # difficulty
    /\ validate(int(LastInv.nonce), LastTr.message, difficulty) # <<>>

\* C12: no two stored transactions have the same message_id, whatever
\* message_ids the generator draws, a repeated one included.
C12_UniqueMessageId ==
    \A i, j \in 1..Len(transactions) :
        transactions[i].message_id = transactions[j].message_id => i = j

\* the generator repeated a stored message_id and the INSERT was refused
C12_Witness ==
    /\ last.op = "add_transaction"
    /\ last.raised
    /\ \E i \in 1..Len(transactions) :
         transactions[i].message_id = last.message_id

\* C13: for every Transaction, the challenge line written by the coordinator
\* and relayed to a peer is decoded by the peer to the same message_id,
\* difficulty and message, also when the payload holds ':' or begins or
\* ends with whitespace.
C13_RoundTrip ==
    last.op = "mine" =>
        /\ ~last.decoded.raised
        /\ last.decoded.status = "TX"
        /\ last.decoded.message_id = last.tr.message_id
        /\ last.decoded.difficulty = last.tr.difficulty
        /\ last.decoded.message = last.tr.message

\* C14: when some nonce n >= n0 qualifies, mine(m, d, n0) returns (n, h)
\* with n the smallest such nonce and h the digest of "<n>:<m>"; no nonce of
\* n0..n-1 validates.
C14_Qualifying ==
    { n \in TableNonces :
        /\ n >= last.nonce
        /\ validate(n, last.message, last.difficulty) # <<>> }

C14_MineSmallest ==
    (last.op = "mine" /\ C14_Qualifying # {}) =>
        /\ last.returned
        /\ LET n == last.ret[1]
               h == last.ret[2]
           IN  /\ n \in C14_Qualifying
               /\ \A k \in C14_Qualifying : n <= k
               /\ h = sha256hash(<<n, last.message>>)
               /\ \A k \in last.nonce..(n - 1) :
                    validate(k, last.message, last.difficulty) = <<>>

\* the search passed over nonces that fail and over-qualified ones exist
\* further on
C14_Witness ==
    /\ last.op = "mine"
    /\ last.returned
    /\ last.ret[1] > last.nonce
    /\ \E k \in C14_Qualifying : k > last.ret[1]

\* C15: for d >= 0, d = 0 and d above the digest length included,
\* validate(n, m, d) returns the digest of "<n>:<m>" exactly when its first
\* d characters exist and are all "0", and none otherwise.
C15_LeadingZeros(h, d) == \A i \in 1..d : i <= Len(h) /\ h[i] = "0"

C15_ValidateIff ==
    last.op = "validate" =>
        LET h == sha256hash(<<last.nonce, last.message>>)
        IN  /\ Len(h) = DigestLen
            /\ C15_LeadingZeros(h, last.difficulty) <=> last.ret = h
            /\ ~C15_LeadingZeros(h, last.difficulty) <=> last.ret = <<>>

\* a digest with two leading zeros fails at three; difficulty 0 and a
\* difficulty above the digest length are reached as well
C15_Witness ==
    /\ last.op = "validate"
    /\ last.difficulty = 3
    /\ last.ret = <<>>
    /\ C15_LeadingZeros(sha256hash(<<last.nonce, last.message>>), 2)

\* C16: for a transaction stored with difficulty 0, a submission that passes
\* the rate limiter is awarded whatever its nonce is when the transaction
\* has no award yet (the award row is added and the winner announced); a
\* later submission for the same message_id is too late: no award is added
\* and nothing is sent.
C16_Step ==
    (/\ handled' = handled + 1
     /\ last'.unpacked /\ last'.checked /\ last'.allowed
     /\ last'.matched /\ last'.known) =>
        LET m == mine_rxp(last'.line[4])
            tr == get_transaction(transactions, m.message_id)
        IN  tr.difficulty = 0 =>
              IF ~check_award_exists(awards, tr)
              THEN /\ ~last'.raised
                   /\ awards' = Append(awards,
                          [id |-> Len(awards) + 1, user_nick |-> last'.user,
                           transaction_id |-> tr.id, nonce |-> int(m.nonce)])
                   /\ sent' = Append(sent, send_message(channel,
                                  MinedText(last'.user, m.message_id)))
              ELSE /\ ~last'.raised
                   /\ awards' = awards
                   /\ sent' = sent
                   /\ last'.logged = "was too late"

C16_DifficultyZeroFirstWins == [][C16_Step]_vars

\* C17: an award, once recorded, stays as it is: every step of the
\* coordinator (submission, transaction creation, difficulty change) leaves
\* every existing row of the awards table in place with the same user,
\* nonce and transaction.
C17_Step ==
    \A j \in 1..Len(awards) :
        /\ j <= Len(awards')
        /\ awards'[j] = awards[j]

C17_AwardedIsTerminal == [][C17_Step]_vars

\* another user's valid submission for an awarded transaction was handled
\* and the award still names the first user
C17_Witness ==
    /\ LastIsSubmission
    /\ last.allowed /\ last.matched /\ last.known /\ last.valid
    /\ ~last.awarded /\ ~last.raised
    /\ \E j \in 1..Len(awards) :
         /\ awards[j].transaction_id = LastTr.id
         /\ awards[j].user_nick # last.user

\* C18: a submission whose nonce field is not a decimal integer is handled
\* by process_inv as malformed: no exception, no change of the ledger, no
\* line sent, and a log entry for the discarded submission.
C18_NonDecimalNonce(msg) ==
    LET parts == split(msg, ":")
    IN  /\ Len(parts) = 5
        /\ <<":">> \o parts[2] \o <<":">> = INV
        /\ ~(parts[5] # <<>> /\ AllIn(parts[5], Digits))

C18_Step ==
    (last'.op = "process_inv" /\ C18_NonDecimalNonce(last'.msg)) =>
        /\ ~last'.raised
        /\ transactions' = transactions
        /\ awards' = awards
        /\ sent' = sent
        /\ last'.logged # ""

C18_MalformedNonceLogged == [][C18_Step]_vars

\* C19: when create_transaction draws a message_id that is already stored,
\* the caller gets a failed result and no exception escapes, the ledger is
\* unchanged, and the coordinator goes on serving.
C19_Step ==
    (/\ last'.op = "create_transaction"
     /\ now' = now /\ pc' = pc
     /\ \E k \in 1..Len(transactions) :
          transactions[k].message_id = last'.tr.message_id) =>
        /\ ~last'.raised
        /\ transactions' = transactions
        /\ running'

C19_ConstraintViolationSurfaced == [][C19_Step]_vars

\* C20: while a peer runs a proof-of-work search, its message loop still
\* takes the lines that arrive: whenever a search is in progress and a line
\* waits on the socket, the loop is able to read and handle that line.
C20_SearchOffReceivePath ==
    (peer_running /\ search # NoSearch /\ Len(inbox) > 0) => ENABLED PeerReadline

\* C21: create_transaction returns the record as persisted: the Transaction
\* handed back to the caller has the id the ledger assigned, and the
\* message_id, difficulty and message, of the row that get_transaction
\* returns for its message_id right afterwards.
C21_ReturnsPersistedRecord ==
    (last.op = "create_transaction" /\ ~last.raised) =>
        LET stored == get_transaction(transactions, last.tr.message_id)
        IN  /\ stored # None
            /\ last.tr.message_id = stored.message_id
            /\ last.tr.difficulty = stored.difficulty
            /\ last.tr.message = stored.message
            /\ last.tr.id # None
            /\ last.tr.id = stored.id

\* C22: in every reachable state get_scores yields exactly one (user, count)
\* pair for each user holding an award and none for the others, count is
\* the number of that user's awards, and the counts add up to the number of
\* awarded transactions.
RECURSIVE C22_Sum(_)
C22_Sum(pairs) ==
    IF pairs = {} THEN 0
    ELSE LET p == CHOOSE p \in pairs : TRUE
         IN  p[2] + C22_Sum(pairs \ {p})

C22_AwardsOf(u) == { j \in 1..Len(awards) : awards[j].user_nick = u }

C22_ScoresMatchAwards ==
    LET scores == get_scores(awards)
    IN  /\ \A u \in Nicks :
             IF C22_AwardsOf(u) = {}
             THEN \A p \in scores : p[1] # u
             ELSE { p \in scores : p[1] = u }
                    = { <<u, Cardinality(C22_AwardsOf(u))>> }
        /\ \A p \in scores : p[1] \in Nicks
        /\ C22_Sum(scores)
             = Cardinality({ awards[j].transaction_id : j \in 1..Len(awards) })

\* C23: on the sub-second clock, two checks of one user that both return
\* True are at least seconds_between_requests seconds of real time apart.
C23_RealTimeCooldown ==
    (last.op = "check" /\ last.ret /\ last.prevAllowedAt # -1) =>
        last.at - last.prevAllowedAt
            >= seconds_between_requests * TicksPerSecond

\* C24: for every string message_id, the empty string included,
\* get_transaction(message_id) returns a transaction only if its message_id
\* equals the argument, and returns none when no stored transaction has
\* that message_id
C24_GetTransactionMatches ==
    \A message_id \in MessageIdArgs :
        LET tr == get_transaction(transactions, message_id)
        IN  /\ tr # None => tr.message_id = message_id
            /\ (~\E i \in 1..Len(transactions) :
                    transactions[i].message_id = message_id) => tr = None

\* C25: every transaction persisted in the ledger has a non-negative
\* difficulty, after any sequence of set-difficulty commands (with any
\* integer the command accepts) and create-transaction commands
C25_NonNegativeDifficulty ==
    \A i \in 1..Len(transactions) : transactions[i].difficulty >= 0

\* C26: every award recorded through the submission path (process, then
\* process_inv) refers to a transaction of the ledger, and its nonce
\* satisfies the puzzle of that transaction: validate(award.nonce,
\* transaction.message, transaction.difficulty) succeeds
C26_AwardsValidate ==
    \A j \in 1..Len(awards) :
        \E i \in 1..Len(transactions) :
            /\ transactions[i].id = awards[j].transaction_id
            /\ validate(awards[j].nonce, transactions[i].message,
                        transactions[i].difficulty) # <<>>

\* a submission was just awarded for a transaction of difficulty 1, which
\* not every nonce of the inputs satisfies
C26_Witness ==
    /\ LastIsSubmission
    /\ last.awarded
    /\ LastTr.difficulty = 1
    /\ \E j \in 1..Len(awards) :
         /\ awards[j].transaction_id = LastTr.id
         /\ awards[j].user_nick = last.user
         /\ awards[j].nonce = int(LastInv.nonce)
    /\ \E n \in Nonces : validate(n, LastTr.message, LastTr.difficulty) = <<>>

\* C27: end to end, when the submission an honest peer mined from a relayed
\* TX line is handled by the coordinator while the transaction is still
\* un-awarded and the peer is not rate-limited, the coordinator accepts it:
\* the line matches the submission format, the nonce validates against the
\* stored message and difficulty, the award is recorded for that peer and
\* announced in the channel.
C27_Fields ==
    split(handle_forever_words(relayed(Source(PeerNick),
                                       Head(outbox))).words[2], ":")
C27_Tr == get_transaction(transactions, C27_Fields[4])
C27_Step ==
    (running /\ Len(outbox) > 0 /\ outbox' = Tail(outbox)) =>
        /\ C27_Tr # None
        /\ (/\ ~check_award_exists(awards, C27_Tr)
            /\ check(attempts, PeerNick, now).ret)
           => /\ last'.op = "process"
              /\ last'.unpacked /\ ~last'.raised
              /\ last'.checked /\ last'.allowed /\ last'.user = PeerNick
              /\ last'.matched /\ last'.known /\ last'.valid
              /\ last'.awarded
              /\ awards' = Append(awards,
                     [id |-> Len(awards) + 1, user_nick |-> PeerNick,
                      transaction_id |-> C27_Tr.id,
                      nonce |-> int(C27_Fields[5])])
              /\ sent' = Append(sent,
                     send_message(channel,
                                  MinedText(PeerNick, C27_Fields[4])))

=============================================================================
